---------------------------- MODULE Spec2Model ----------------------------
(***************************************************************************)
(* Model of beaconclient/prod_beacon_instance.go (mev-boost-relay).        *)
(*                                                                         *)
(* Spec      : the head-event stream, SubscribeToHeadEvents, one goroutine *)
(*             looping over sse.Client.SubscribeRaw, its callback sending  *)
(*             decoded events on the caller's channel slotC, and the       *)
(*             consumers receiving from slotC.                             *)
(* SpecFetch : FetchValidators applied to bounded validators responses.    *)
(* SpecClient: concurrent calls of the accessors of ProdBeaconInstance,    *)
(*             each one request to the beacon node and its return.         *)
(* SpecShared: the stream, CurrentSlot calls and FetchValidators calls     *)
(*             interleaved.                                                *)
(* SpecReg   : the conversions between signed validator registrations and  *)
(*             their database entries.                                     *)
(*                                                                         *)
(* Strings whose content matters (JSON string values, public keys) are     *)
(* sequences of one-character strings, so that parsing and lower-casing    *)
(* are computed, not assumed.                                              *)
(***************************************************************************)
EXTENDS Integers, Sequences, FiniteSets, TLC

(***************************************************************************)
(* Bounds of the model.                                                    *)
(***************************************************************************)
MaxAttempts == 3

MaxEvents == 2

MaxCap == 1

NumConsumers == 2

MaxEntries == 3

(***************************************************************************)
(* time.Sleep(1 * time.Second), in seconds.                                *)
(***************************************************************************)
BackoffSeconds == 1

VARIABLES
    pc,        \* where the SubscribeToHeadEvents goroutine is
    attempts,  \* number of client.SubscribeRaw calls made so far
    drops,     \* number of client.SubscribeRaw calls that have returned
    active,    \* the SubscribeRaw calls (connections) in progress
    err,       \* the iteration's `err` (nil until SubscribeRaw returns)
    backoffs,  \* number of completed time.Sleep calls
    waited,    \* seconds slept in this iteration since SubscribeRaw returned
    emitted,   \* history: the bodies of the events handed to the callback
    connStart, \* history: Len(emitted) when the current SubscribeRaw call began
    errLogs,   \* number of "could not unmarshal head event" log lines
    pending,   \* the value of a send `slotC <- data` in progress (<<>> if none)
    buf,       \* the buffer of slotC
    cap,       \* the capacity of slotC (0: unbuffered)
    recvLog,   \* history: the values received from slotC, in order
    fvResp,    \* the fetch result handed to the last FetchValidators call
    fvRet,     \* what the last FetchValidators call returned
    closed,    \* whether slotC has been closed
    beaconURI, \* ProdBeaconInstance.beaconURI
    log,       \* ProdBeaconInstance.log (its fields)
    calls,     \* per caller: the accessor call in progress or last returned
    regIn,     \* the input of the last registration conversion
    regOut     \* the result of the last registration conversion

streamVars == <<pc, attempts, drops, active, err, backoffs, waited, emitted, connStart,
                errLogs, pending, buf, cap, recvLog, closed>>

clientVars == <<beaconURI, log, calls>>

regVars == <<regIn, regOut>>

fetchVars == <<fvResp, fvRet>>

vars == <<pc, attempts, drops, active, err, backoffs, waited, emitted, connStart,
          errLogs, pending, buf, cap, recvLog, fvResp, fvRet, closed,
          beaconURI, log, calls, regIn, regOut>>

Nil == "nil"

Consumers == 1..NumConsumers

Last(s) == s[Len(s)]

(***************************************************************************)
(* JSON bodies.  A body is either not JSON at all, or a JSON value; an     *)
(* object is given by the tokens of its slot, block and state members      *)
(* (members the struct does not name are ignored by the decoder).          *)
(***************************************************************************)
Absent == [kind |-> "absent"]

JNull == [kind |-> "null"]

JStr(chars) == [kind |-> "string", chars |-> chars]

JNum(n) == [kind |-> "number", val |-> n]

JObject(slot, block, state) ==
    [top |-> "object", slot |-> slot, block |-> block, state |-> state]

JOther(top) == [top |-> top, slot |-> Absent, block |-> Absent, state |-> Absent]

Digits == <<"0", "1", "2", "3", "4", "5", "6", "7", "8", "9">>

IsDigit(c) == \E i \in 1..10 : Digits[i] = c

DigitVal(c) == (CHOOSE i \in 1..10 : Digits[i] = c) - 1

\* strconv.ParseUint(s, 10, 64) on a string of decimal digits
RECURSIVE ParseUint(_)
ParseUint(chars) ==
    IF chars = <<>> THEN 0
    ELSE ParseUint(SubSeq(chars, 1, Len(chars) - 1)) * 10 + DigitVal(Last(chars))

IsDecimal(chars) == chars # <<>> /\ \A i \in 1..Len(chars) : IsDigit(chars[i])

\* a uint64 field tagged `json:"slot,string"`
DecodeUintString(tok) ==
    CASE tok.kind = "absent" -> [err |-> Nil, val |-> 0]
      [] tok.kind = "null"   -> [err |-> Nil, val |-> 0]
      [] tok.kind = "string" ->
            IF IsDecimal(tok.chars)
            THEN [err |-> Nil, val |-> ParseUint(tok.chars)]
            ELSE [err |-> "UnmarshalTypeError", val |-> 0]
      [] OTHER               -> [err |-> "InvalidStringTag", val |-> 0]

\* a string field
DecodeString(tok) ==
    CASE tok.kind = "absent" -> [err |-> Nil, val |-> <<>>]
      [] tok.kind = "null"   -> [err |-> Nil, val |-> <<>>]
      [] tok.kind = "string" -> [err |-> Nil, val |-> tok.chars]
      [] OTHER               -> [err |-> "UnmarshalTypeError", val |-> <<>>]

HeadEventData(slot, block, state) == [Slot |-> slot, Block |-> block, State |-> state]

ZeroHeadEventData == HeadEventData(0, <<>>, <<>>)

FirstErr(errs) ==
    IF \A i \in 1..Len(errs) : errs[i] = Nil THEN Nil
    ELSE errs[CHOOSE i \in 1..Len(errs) :
                 errs[i] # Nil /\ \A j \in 1..(i - 1) : errs[j] = Nil]

\* var data HeadEventData; err := json.Unmarshal(msg.Data, &data)
Unmarshal(body) ==
    CASE body.top = "garbage" -> [err |-> "SyntaxError", data |-> ZeroHeadEventData]
      [] body.top = "null"    -> [err |-> Nil, data |-> ZeroHeadEventData]
      [] body.top = "object"  ->
            LET s == DecodeUintString(body.slot)
                b == DecodeString(body.block)
                t == DecodeString(body.state)
            IN  [err  |-> FirstErr(<<s.err, b.err, t.err>>),
                 data |-> HeadEventData(s.val, b.val, t.val)]
      [] OTHER                -> [err |-> "UnmarshalTypeError", data |-> ZeroHeadEventData]

(***************************************************************************)
(* The bodies the modelled upstream emits.                                 *)
(***************************************************************************)
Hex01 == <<"0", "x", "0", "1">>

Hex02 == <<"0", "x", "0", "2">>

\* {"slot":"123","block":"0x01","state":"0x02"}
Body123 == JObject(JStr(<<"1", "2", "3">>), JStr(Hex01), JStr(Hex02))

\* {"slot":"124","block":"0x02","state":"0x01"}
Body124 == JObject(JStr(<<"1", "2", "4">>), JStr(Hex02), JStr(Hex01))

\* {"block":"0x01","state":"0x02"}
BodyNoSlot == JObject(Absent, JStr(Hex01), JStr(Hex02))

\* {"slot":123,"block":"0x01","state":"0x02"}
BodyBareSlot == JObject(JNum(123), JStr(Hex01), JStr(Hex02))

\* not JSON
BodyGarbage == JOther("garbage")

Bodies == {Body123, Body124, BodyNoSlot, BodyBareSlot, BodyGarbage}

(***************************************************************************)
(* The channel slotC.                                                      *)
(***************************************************************************)
InFlight == buf \o pending

CanSend == Len(buf) < cap

Item(i, data) == [idx |-> i, data |-> data]

(***************************************************************************)
(* FetchValidators.                                                        *)
(***************************************************************************)
UpperChars == <<"A", "B", "C", "D", "E", "F", "X">>

LowerChars == <<"a", "b", "c", "d", "e", "f", "x">>

ToLowerChar(c) ==
    IF \E i \in 1..Len(UpperChars) : UpperChars[i] = c
    THEN LowerChars[CHOOSE i \in 1..Len(UpperChars) : UpperChars[i] = c]
    ELSE c

\* strings.ToLower
ToLower(chars) == [i \in 1..Len(chars) |-> ToLowerChar(chars[i])]

\* NewPubkeyHex without the lower-casing
NewPubkeyHexRaw(pk) == pk

\* types.NewPubkeyHex(pk): PubkeyHex(strings.ToLower(pk))
NewPubkeyHex(pk) == ToLower(pk)

\* a Go map value: nil, or made and holding the function m
NilMap == [nil |-> TRUE, m |-> <<>>]

MakeMap == [nil |-> FALSE, m |-> <<>>]

\* an assignment that keeps the entry a key already has
PutIfAbsent(mp, k, v) ==
    [nil |-> FALSE,
     m   |-> [x \in DOMAIN mp.m \cup {k} |-> IF x \in DOMAIN mp.m THEN mp.m[x] ELSE v]]

\* newValidatorSet[k] = v
Put(mp, k, v) ==
    [nil |-> FALSE,
     m   |-> [x \in DOMAIN mp.m \cup {k} |-> IF x = k THEN v ELSE mp.m[x]]]

ValidatorResponseEntry(index, pubkey) ==
    [Index |-> index, Validator |-> [Pubkey |-> pubkey]]

\* for _, vs := range vd.Data { newValidatorSet[...] = vs }, from entry i on
RECURSIVE RangeData(_, _, _)
RangeData(data, i, mp) ==
    IF i > Len(data) THEN mp
    ELSE RangeData(data, i + 1,
                   Put(mp, NewPubkeyHex(data[i].Validator.Pubkey), data[i]))

\* FetchValidators, given what fetchAllValidators returned
FetchValidators(resp) ==
    IF resp.err # Nil
    THEN [set |-> NilMap, err |-> resp.err]
    ELSE [set |-> RangeData(resp.Data, 1, MakeMap), err |-> Nil]

PkAA == <<"0", "x", "A", "A">>

PkBB == <<"0", "x", "B", "B">>

Pkaa == <<"0", "x", "a", "a">>

Pkbb == <<"0", "x", "b", "b">>

EntryAA == ValidatorResponseEntry(1, PkAA)

EntryBB == ValidatorResponseEntry(2, PkBB)

Entryaa == ValidatorResponseEntry(3, Pkaa)

EntryAA2 == ValidatorResponseEntry(4, PkAA)

Entries == {EntryAA, EntryBB, Entryaa, EntryAA2}

RECURSIVE SeqsUpTo(_, _)
SeqsUpTo(S, n) ==
    IF n = 0 THEN {<<>>}
    ELSE LET shorter == SeqsUpTo(S, n - 1)
         IN  shorter \cup {Append(q, x) : q \in shorter, x \in S}

FetchErrors == {"TransportError", "UpstreamStatusError", "DecodeError"}

\* what the fetch of the validators can return
Responses ==
    {[called |-> TRUE, err |-> Nil, Data |-> d] : d \in SeqsUpTo(Entries, MaxEntries)}
        \cup {[called |-> TRUE, err |-> e, Data |-> <<>>] : e \in FetchErrors}

NoFetch == [called |-> FALSE, err |-> Nil, Data |-> <<>>]

\* one call of FetchValidators
FetchValidatorsCall(resp) ==
    /\ fvResp' = resp
    /\ fvRet' = FetchValidators(resp)
    /\ UNCHANGED <<streamVars, clientVars, regVars>>

(***************************************************************************)
(* The client and its accessors.  Every accessor builds a URL from         *)
(* c.beaconURI and its argument, calls fetchBeacon once and returns.  A    *)
(* call is two steps: Call (the URL is built and the request is sent)      *)
(* and Respond (fetchBeacon returns and the accessor returns).  A caller   *)
(* is one invocation: it makes its call once, at any time.                 *)
(***************************************************************************)
NumCallers == 2

Callers == 1..NumCallers

BaseURI == "http://beacon"

\* log.WithFields({"component": "beaconInstance", "beaconURI": beaconURI})
NewLog(uri) == [component |-> "beaconInstance", beaconURI |-> uri]

\* fmt.Sprintf("%d", n)
RECURSIVE FormatUint(_)
FormatUint(n) ==
    IF n < 10 THEN <<Digits[n + 1]>>
    ELSE FormatUint(n \div 10) \o <<Digits[(n % 10) + 1]>>

NoArg == <<>>

Slots == {12}

BlockIDs == {<<"h", "e", "a", "d">>, <<"1">>}

Blocks == {<<"b", "l", "o", "c", "k">>}

PlainAccessors ==
    {"SyncStatus", "CurrentSlot", "GetHeader", "GetGenesis", "GetSpec", "GetForkSchedule"}

SlotAccessors ==
    {"GetProposerDuties", "GetHeaderForSlot", "GetBlockForSlot", "GetRandao",
     "GetWithdrawals", "FetchValidators"}

Accessors == PlainAccessors \cup SlotAccessors \cup {"GetBlock", "PublishBlock"}

\* the arguments a call of the accessor is made with
Args(acc) ==
    CASE acc \in PlainAccessors -> {NoArg}
      [] acc \in SlotAccessors  -> Slots
      [] acc = "GetBlock"       -> BlockIDs
      [] acc = "PublishBlock"   -> Blocks

\* the uri each accessor builds: endpoint, the text before the argument, the
\* formatted argument, the text after it
URI(endpoint, acc, arg) ==
    CASE acc \in {"SyncStatus", "CurrentSlot"} ->
            <<endpoint, "/eth/v1/node/syncing", <<>>, "">>
      [] acc = "GetProposerDuties" ->
            <<endpoint, "/eth/v1/validator/duties/proposer/", FormatUint(arg), "">>
      [] acc = "GetHeader" ->
            <<endpoint, "/eth/v1/beacon/headers/head", <<>>, "">>
      [] acc = "GetHeaderForSlot" ->
            <<endpoint, "/eth/v1/beacon/headers/", FormatUint(arg), "">>
      [] acc = "GetBlock" ->
            <<endpoint, "/eth/v2/beacon/blocks/", arg, "">>
      [] acc = "GetBlockForSlot" ->
            <<endpoint, "/eth/v2/beacon/blocks/", FormatUint(arg), "">>
      [] acc = "PublishBlock" ->
            <<endpoint, "/eth/v1/beacon/blocks", <<>>, "">>
      [] acc = "GetGenesis" ->
            <<endpoint, "/eth/v1/beacon/genesis", <<>>, "">>
      [] acc = "GetSpec" ->
            <<endpoint, "/eth/v1/config/spec", <<>>, "">>
      [] acc = "GetForkSchedule" ->
            <<endpoint, "/eth/v1/config/fork_schedule", <<>>, "">>
      [] acc = "GetRandao" ->
            <<endpoint, "/eth/v1/beacon/states/", FormatUint(arg), "/randao">>
      [] acc = "GetWithdrawals" ->
            <<endpoint, "/eth/v1/beacon/states/", FormatUint(arg), "/withdrawals">>
      [] acc = "FetchValidators" ->
            <<endpoint, "/eth/v1/beacon/states/", FormatUint(arg),
              "/validators?status=active,pending">>

\* http.MethodGet for every accessor but PublishBlock
Method(acc) == IF acc = "PublishBlock" THEN "POST" ELSE "GET"

SyncStatusPayloadData(headSlot, isSyncing) ==
    [HeadSlot |-> headSlot, IsSyncing |-> isSyncing]

\* new(T): the zero value of the response type the accessor passes as dst
\* (nil for PublishBlock)
NewResp(acc) ==
    CASE acc \in {"SyncStatus", "CurrentSlot"} -> [Data |-> SyncStatusPayloadData(0, FALSE)]
      [] acc = "FetchValidators"               -> [Data |-> <<>>]
      [] acc = "PublishBlock"                  -> [Data |-> Nil]
      [] OTHER                                 -> [Data |-> "zero"]

\* what a 2xx response can decode to
Payloads(acc) ==
    CASE acc \in {"SyncStatus", "CurrentSlot"} ->
            {[Data |-> SyncStatusPayloadData(5, FALSE)],
             [Data |-> SyncStatusPayloadData(6, TRUE)]}
      [] acc = "FetchValidators" ->
            {[Data |-> <<EntryAA>>], [Data |-> <<EntryBB, Entryaa>>]}
      [] acc = "PublishBlock" ->
            {NewResp(acc)}
      [] OTHER ->
            {[Data |-> "decoded"]}

\* the status code fetchBeacon returns beside each error
StatusOf(e) ==
    CASE e = "TransportError"      -> 0
      [] e = "UpstreamStatusError" -> 503
      [] e = "DecodeError"         -> 200

\* what fetchBeacon(method, uri, payload, dst) can return: (code, err), and
\* the contents of dst
FetchOutcomes(acc) ==
    {[code |-> 200, err |-> Nil, resp |-> r] : r \in Payloads(acc)}
        \cup {[code |-> StatusOf(e), err |-> e, resp |-> NewResp(acc)] : e \in FetchErrors}

\* the number of upstream requests one fetchBeacon call performs
FetchBeaconRequests == 1

NilPtr == [nil |-> TRUE, val |-> Nil]

Ptr(v) == [nil |-> FALSE, val |-> v]

\* resp := new(T); _, err := fetchBeacon(GET, uri, nil, resp); return resp, err
RespAndErr(f) == [res |-> Ptr(f.resp), err |-> f.err]

SyncStatus(f) ==
    IF f.err # Nil
    THEN [res |-> NilPtr, err |-> f.err]
    ELSE [res |-> Ptr(f.resp.Data), err |-> Nil]

\* CurrentSlot that reports slot 0 without the error
CurrentSlotSwallow(f) ==
    LET syncStatus == SyncStatus(f)
    IN  IF syncStatus.err # Nil
        THEN [res |-> 0, err |-> Nil]
        ELSE [res |-> syncStatus.res.val.HeadSlot, err |-> Nil]

\* CurrentSlot that falls back on the slot another call returned
CurrentSlotStale(f) ==
    LET syncStatus == SyncStatus(f)
        earlier == {q \in Callers : /\ calls[q].phase = "done"
                                    /\ calls[q].acc = "CurrentSlot"
                                    /\ calls[q].ret.err = Nil}
    IN  IF syncStatus.err # Nil
        THEN [res |-> IF earlier = {} THEN 0
                      ELSE calls[CHOOSE q \in earlier : TRUE].ret.res,
              err |-> syncStatus.err]
        ELSE [res |-> syncStatus.res.val.HeadSlot, err |-> Nil]

CurrentSlot(f) ==
    LET syncStatus == SyncStatus(f)
    IN  IF syncStatus.err # Nil
        THEN [res |-> 0, err |-> syncStatus.err]
        ELSE [res |-> syncStatus.res.val.HeadSlot, err |-> Nil]

GetProposerDuties(f) == RespAndErr(f)

\* GetHeader that returns no response object when the fetch failed
GetHeaderNilOnError(f) ==
    IF f.err # Nil THEN [res |-> NilPtr, err |-> f.err] ELSE RespAndErr(f)

GetHeader(f) == RespAndErr(f)

GetHeaderForSlot(f) == RespAndErr(f)

GetBlock(f) == RespAndErr(f)

GetBlockForSlot(f) == RespAndErr(f)

\* return fetchBeacon(http.MethodPost, uri, block, nil)
PublishBlock(f) == [res |-> f.code, err |-> f.err]

GetGenesis(f) == RespAndErr(f)

GetSpec(f) == RespAndErr(f)

GetForkSchedule(f) == RespAndErr(f)

GetRandao(f) == RespAndErr(f)

GetWithdrawals(f) == RespAndErr(f)

\* vd := new(AllValidatorsResponse); _, err := fetchBeacon(...); return vd, err
fetchAllValidators(f) == [called |-> TRUE, err |-> f.err, Data |-> f.resp.Data]

\* what the accessor returns once fetchBeacon has returned f
Return(acc, f) ==
    CASE acc = "SyncStatus"        -> SyncStatus(f)
      [] acc = "CurrentSlot"       -> CurrentSlot(f)
      [] acc = "GetProposerDuties" -> GetProposerDuties(f)
      [] acc = "GetHeader"         -> GetHeader(f)
      [] acc = "GetHeaderForSlot"  -> GetHeaderForSlot(f)
      [] acc = "GetBlock"          -> GetBlock(f)
      [] acc = "GetBlockForSlot"   -> GetBlockForSlot(f)
      [] acc = "PublishBlock"      -> PublishBlock(f)
      [] acc = "GetGenesis"        -> GetGenesis(f)
      [] acc = "GetSpec"           -> GetSpec(f)
      [] acc = "GetForkSchedule"   -> GetForkSchedule(f)
      [] acc = "GetRandao"         -> GetRandao(f)
      [] acc = "GetWithdrawals"    -> GetWithdrawals(f)
      [] acc = "FetchValidators"   ->
            LET r == FetchValidators(fetchAllValidators(f))
            IN  [res |-> r.set, err |-> r.err]

NoOut == [code |-> 0, err |-> Nil, resp |-> Nil]

NoRet == [res |-> Nil, err |-> Nil]

IdleCall ==
    [phase |-> "idle", acc |-> Nil, arg |-> NoArg, method |-> Nil, uri |-> <<>>,
     nreq |-> 0, out |-> NoOut, ret |-> NoRet]

\* caller p enters the accessor: the uri is built and fetchBeacon is called
Call(p, acc, arg) ==
    /\ calls[p].phase = "idle"
    /\ calls' = [calls EXCEPT ![p] =
                    [phase  |-> "inflight",
                     acc    |-> acc,
                     arg    |-> arg,
                     method |-> Method(acc),
                     uri    |-> URI(beaconURI, acc, arg),
                     nreq   |-> FetchBeaconRequests,
                     out    |-> NoOut,
                     ret    |-> NoRet]]
    /\ UNCHANGED <<beaconURI, log, streamVars, fetchVars, regVars>>

\* Respond that sends the request again when it failed
RespondRetry(p, f) ==
    /\ calls[p].phase = "inflight"
    /\ f \in FetchOutcomes(calls[p].acc)
    /\ calls' = [calls EXCEPT ![p] =
                    IF f.err # Nil /\ @.nreq = FetchBeaconRequests
                    THEN [@ EXCEPT !.nreq = @ + FetchBeaconRequests]
                    ELSE [@ EXCEPT !.phase = "done",
                                   !.out   = f,
                                   !.ret   = Return(calls[p].acc, f)]]
    /\ UNCHANGED <<beaconURI, log, streamVars, fetchVars, regVars>>

\* Respond that answers from the result another caller's call of the same
\* accessor left behind
RespondShared(p, f) ==
    /\ calls[p].phase = "inflight"
    /\ f \in FetchOutcomes(calls[p].acc)
    /\ LET same == {q \in Callers \ {p} : /\ calls[q].phase = "done"
                                          /\ calls[q].acc = calls[p].acc}
       IN  calls' = [calls EXCEPT ![p] =
                        [@ EXCEPT !.phase = "done",
                                  !.out   = f,
                                  !.ret   = IF same = {}
                                            THEN Return(calls[p].acc, f)
                                            ELSE calls[CHOOSE q \in same : TRUE].ret]]
    /\ UNCHANGED <<beaconURI, log, streamVars, fetchVars, regVars>>

\* fetchBeacon returns f to caller p's accessor, which returns
Respond(p, f) ==
    /\ calls[p].phase = "inflight"
    /\ f \in FetchOutcomes(calls[p].acc)
    /\ calls' = [calls EXCEPT ![p] =
                    [@ EXCEPT !.phase = "done",
                              !.out   = f,
                              !.ret   = Return(calls[p].acc, f)]]
    /\ UNCHANGED <<beaconURI, log, streamVars, fetchVars, regVars>>

(***************************************************************************)
(* Validator registrations and their database entries.  Public keys,       *)
(* addresses and signatures are sequences of bytes; the entry holds them   *)
(* as text, "0x" followed by two hex digits per byte.  The ID and          *)
(* InsertedAt fields of the entry, which neither conversion reads or       *)
(* sets, are left out.                                                     *)
(***************************************************************************)
PublicKeyLength == 48

AddressLength == 20

SignatureLength == 96

HexChars == <<"0", "1", "2", "3", "4", "5", "6", "7", "8", "9",
              "a", "b", "c", "d", "e", "f">>

UpperHexChars == <<"0", "1", "2", "3", "4", "5", "6", "7", "8", "9",
                   "A", "B", "C", "D", "E", "F">>

\* the String() of a byte array: hexutil.Encode
String(bytes) ==
    [i \in 1..(2 + 2 * Len(bytes)) |->
        IF i = 1 THEN "0"
        ELSE IF i = 2 THEN "x"
        ELSE LET b == bytes[(i - 1) \div 2]
             IN  IF i % 2 = 1 THEN HexChars[(b \div 16) + 1] ELSE HexChars[(b % 16) + 1]]

IsHexChar(c) == \E i \in 1..16 : HexChars[i] = c \/ UpperHexChars[i] = c

HexCharVal(c) == (CHOOSE i \in 1..16 : HexChars[i] = c \/ UpperHexChars[i] = c) - 1

Has0xPrefix(input) ==
    Len(input) >= 2 /\ input[1] = "0" /\ input[2] \in {"x", "X"}

ZeroBytes(n) == [i \in 1..n |-> 0]

\* UnmarshalText of an n-byte array type: hexutil.Bytes.UnmarshalText, then
\* FromSlice, which wants exactly n bytes
UnmarshalText(input, n) ==
    LET raw == SubSeq(input, 3, Len(input))
        dec == [i \in 1..(Len(raw) \div 2) |->
                   HexCharVal(raw[2 * i - 1]) * 16 + HexCharVal(raw[2 * i])]
    IN  IF Len(input) = 0
        THEN [val |-> ZeroBytes(n), err |-> "ErrLength"]
        ELSE IF ~Has0xPrefix(input)
        THEN [val |-> ZeroBytes(n), err |-> "ErrMissingPrefix"]
        ELSE IF Len(raw) % 2 # 0
        THEN [val |-> ZeroBytes(n), err |-> "ErrOddLength"]
        ELSE IF \E i \in 1..Len(raw) : ~IsHexChar(raw[i])
        THEN [val |-> ZeroBytes(n), err |-> "ErrSyntax"]
        ELSE IF Len(dec) # n
        THEN [val |-> ZeroBytes(n), err |-> "ErrLength"]
        ELSE [val |-> dec, err |-> Nil]

HexToPubkey(s) == UnmarshalText(s, PublicKeyLength)

HexToAddress(s) == UnmarshalText(s, AddressLength)

HexToSignature(s) == UnmarshalText(s, SignatureLength)

RegisterValidatorRequestMessage(pubkey, feeRecipient, timestamp, gasLimit) ==
    [Pubkey |-> pubkey, FeeRecipient |-> feeRecipient,
     Timestamp |-> timestamp, GasLimit |-> gasLimit]

SignedValidatorRegistration(message, signature) ==
    [Message |-> message, Signature |-> signature]

ValidatorRegistrationEntry(pubkey, feeRecipient, timestamp, gasLimit, signature) ==
    [Pubkey |-> pubkey, FeeRecipient |-> feeRecipient,
     Timestamp |-> timestamp, GasLimit |-> gasLimit, Signature |-> signature]

NoEntry == ValidatorRegistrationEntry(<<>>, <<>>, 0, 0, <<>>)

\* ToSignedValidatorRegistration that parses the signature first
ToSignedValidatorRegistrationSigFirst(reg) ==
    LET pubkey == HexToPubkey(reg.Pubkey)
        feeRec == HexToAddress(reg.FeeRecipient)
        sig    == HexToSignature(reg.Signature)
    IN  IF sig.err # Nil THEN [res |-> NilPtr, err |-> sig.err]
        ELSE IF pubkey.err # Nil THEN [res |-> NilPtr, err |-> pubkey.err]
        ELSE IF feeRec.err # Nil THEN [res |-> NilPtr, err |-> feeRec.err]
        ELSE [res |-> Ptr(SignedValidatorRegistration(
                            Ptr(RegisterValidatorRequestMessage(
                                    pubkey.val, feeRec.val, reg.Timestamp, reg.GasLimit)),
                            sig.val)),
              err |-> Nil]

ToSignedValidatorRegistration(reg) ==
    LET pubkey == HexToPubkey(reg.Pubkey)
        feeRec == HexToAddress(reg.FeeRecipient)
        sig    == HexToSignature(reg.Signature)
    IN  IF pubkey.err # Nil THEN [res |-> NilPtr, err |-> pubkey.err]
        ELSE IF feeRec.err # Nil THEN [res |-> NilPtr, err |-> feeRec.err]
        ELSE IF sig.err # Nil THEN [res |-> NilPtr, err |-> sig.err]
        ELSE [res |-> Ptr(SignedValidatorRegistration(
                            Ptr(RegisterValidatorRequestMessage(
                                    pubkey.val, feeRec.val, reg.Timestamp, reg.GasLimit)),
                            sig.val)),
              err |-> Nil]

\* SignedValidatorRegistrationToEntry that stores the gas limit as timestamp
\* and the timestamp as gas limit
SignedValidatorRegistrationToEntrySwapped(valReg) ==
    IF valReg.Message.nil
    THEN [panic |-> TRUE, entry |-> NoEntry]
    ELSE [panic |-> FALSE,
          entry |-> ValidatorRegistrationEntry(
                        String(valReg.Message.val.Pubkey),
                        String(valReg.Message.val.FeeRecipient),
                        valReg.Message.val.GasLimit,
                        valReg.Message.val.Timestamp,
                        String(valReg.Signature))]

\* valReg.Message is dereferenced without a nil check
SignedValidatorRegistrationToEntry(valReg) ==
    IF valReg.Message.nil
    THEN [panic |-> TRUE, entry |-> NoEntry]
    ELSE [panic |-> FALSE,
          entry |-> ValidatorRegistrationEntry(
                        String(valReg.Message.val.Pubkey),
                        String(valReg.Message.val.FeeRecipient),
                        valReg.Message.val.Timestamp,
                        valReg.Message.val.GasLimit,
                        String(valReg.Signature))]

\* byte arrays: all bytes b but the first, which is `first`
Bytes(n, first, b) == [i \in 1..n |-> IF i = 1 THEN first ELSE b]

Pubkeys == {Bytes(PublicKeyLength, 171, 171), Bytes(PublicKeyLength, 0, 15)}

Addresses == {Bytes(AddressLength, 222, 173), Bytes(AddressLength, 10, 0)}

Signatures == {Bytes(SignatureLength, 255, 1), Bytes(SignatureLength, 9, 160)}

Timestamps == {0, 1667000000}

GasLimits == {0, 30000000}

\* the registrations handed to SignedValidatorRegistrationToEntry
Registrations ==
    {SignedValidatorRegistration(Ptr(RegisterValidatorRequestMessage(pk, fr, ts, gl)), sg) :
        pk \in Pubkeys, fr \in Addresses, ts \in Timestamps, gl \in GasLimits,
        sg \in Signatures}

\* types.SignedValidatorRegistration{}: the Message pointer is nil
NoRegistration ==
    SignedValidatorRegistration(
        [nil |-> TRUE, val |-> RegisterValidatorRequestMessage(<<>>, <<>>, 0, 0)],
        ZeroBytes(SignatureLength))

\* text of the form an entry's column can hold for an n-byte value: well
\* formed in lower and in upper case, and malformed in each way there is
Upper(s) == [i \in 1..Len(s) |-> IF i = 2 THEN "X" ELSE
                                    IF \E k \in 1..16 : HexChars[k] = s[i]
                                    THEN UpperHexChars[HexCharVal(s[i]) + 1] ELSE s[i]]

Texts(bytes) ==
    LET s == String(bytes)
    IN  {s,
         Upper(s),
         SubSeq(s, 3, Len(s)),
         SubSeq(s, 1, Len(s) - 1),
         [s EXCEPT ![Len(s)] = "g"],
         SubSeq(s, 1, Len(s) - 2),
         <<>>}

\* the entries read from the database
DBEntries ==
    {ValidatorRegistrationEntry(pk, fr, 1667000000, 30000000, sg) :
        pk \in Texts(Bytes(PublicKeyLength, 171, 171)),
        fr \in Texts(Bytes(AddressLength, 222, 173)),
        sg \in Texts(Bytes(SignatureLength, 255, 1))}

NoReg == [stage |-> "none", reg |-> NoRegistration, entry |-> NoEntry]

NoResult == [res |-> NilPtr, err |-> Nil]

\* SignedValidatorRegistrationToEntry(valReg)
ToEntryCall(valReg) ==
    /\ regIn.stage # "entry"
    /\ LET r == SignedValidatorRegistrationToEntry(valReg)
       IN  regIn' = [stage |-> IF r.panic THEN "panic" ELSE "entry",
                     reg   |-> valReg,
                     entry |-> r.entry]
    /\ regOut' = NoResult
    /\ UNCHANGED <<streamVars, fetchVars, clientVars>>

\* an entry comes out of the database
LoadEntry(entry) ==
    /\ regIn.stage # "entry"
    /\ regIn' = [stage |-> "entry", reg |-> NoRegistration, entry |-> entry]
    /\ regOut' = NoResult
    /\ UNCHANGED <<streamVars, fetchVars, clientVars>>

\* reg.ToSignedValidatorRegistration() on the entry at hand
ToSignedCall ==
    /\ regIn.stage = "entry"
    /\ regIn' = [regIn EXCEPT !.stage = "converted"]
    /\ regOut' = ToSignedValidatorRegistration(regIn.entry)
    /\ UNCHANGED <<streamVars, fetchVars, clientVars>>

(***************************************************************************)
(* SubscribeToHeadEvents.                                                  *)
(***************************************************************************)
Init ==
    /\ pc = "loop"
    /\ attempts = 0
    /\ drops = 0
    /\ active = {}
    /\ err = Nil
    /\ backoffs = 0
    /\ waited = 0
    /\ emitted = <<>>
    /\ connStart = 0
    /\ errLogs = 0
    /\ pending = <<>>
    /\ buf = <<>>
    /\ cap \in 0..MaxCap
    /\ recvLog = <<>>
    /\ fvResp = NoFetch
    /\ fvRet = [set |-> NilMap, err |-> Nil]
    /\ closed = FALSE
    /\ beaconURI = BaseURI
    /\ log = NewLog(BaseURI)
    /\ calls = [p \in Callers |-> IdleCall]
    /\ regIn = NoReg
    /\ regOut = NoResult

\* Subscribe that does not wait for the previous SubscribeRaw call to return
SubscribeEarly ==
    /\ pc \in {"loop", "streaming"}
    /\ attempts < MaxAttempts
    /\ attempts' = attempts + 1
    /\ active' = active \cup {attempts + 1}
    /\ err' = Nil
    /\ waited' = 0
    /\ connStart' = Len(emitted)
    /\ pc' = "connecting"
    /\ UNCHANGED <<drops, backoffs, emitted, errLogs, pending, buf, cap,
                   recvLog, fvResp, fvRet,
                   closed, clientVars, regVars>>

\* client := sse.NewClient(eventsURL); client.SubscribeRaw(...) is called
Subscribe ==
    /\ pc = "loop"
    /\ attempts < MaxAttempts
    /\ attempts' = attempts + 1
    /\ active' = active \cup {attempts + 1}
    /\ err' = Nil
    /\ waited' = 0
    /\ connStart' = Len(emitted)
    /\ pc' = "connecting"
    /\ UNCHANGED <<drops, backoffs, emitted, errLogs, pending, buf, cap,
                   recvLog, fvResp, fvRet,
                   closed, clientVars, regVars>>

\* the connection is established: events may now reach the callback
Connected ==
    /\ pc = "connecting"
    /\ pc' = "streaming"
    /\ UNCHANGED <<attempts, drops, active, err, backoffs, waited, emitted, connStart,
                   errLogs, pending, buf, cap, recvLog, fvResp, fvRet,
                   closed, clientVars, regVars>>

\* Returned that closes slotC once SubscribeRaw has returned
ReturnedClose(e) ==
    /\ drops' = drops + 1
    /\ active' = active \ {attempts}
    /\ err' = e
    /\ waited' = 0
    /\ closed' = TRUE
    /\ pc' = IF e # Nil THEN "sleeping" ELSE "warn"
    /\ UNCHANGED <<attempts, backoffs, emitted, connStart, errLogs, pending, buf, cap,
                   recvLog, fvResp, fvRet, clientVars, regVars>>

\* err := client.SubscribeRaw(...) returns e; then `if err != nil`
Returned(e) ==
    /\ drops' = drops + 1
    /\ active' = active \ {attempts}
    /\ err' = e
    /\ waited' = 0
    /\ pc' = IF e # Nil THEN "sleeping" ELSE "warn"
    /\ UNCHANGED <<attempts, backoffs, emitted, connStart, errLogs, pending, buf, cap,
                   recvLog, fvResp, fvRet,
                   closed, clientVars, regVars>>

\* the connection cannot be established and SubscribeRaw gives up
ConnectFail ==
    /\ pc = "connecting"
    /\ Returned("TransportError")

\* the stream ends: a clean close by the server (nil) or a transport error
StreamEnd(e) ==
    /\ pc = "streaming"
    /\ Returned(e)

\* OnEvent with a filter that suppresses a head event repeating the last slot
OnEventDedup(body) ==
    /\ pc = "streaming"
    /\ Len(emitted) < MaxEvents
    /\ emitted' = Append(emitted, body)
    /\ LET r == Unmarshal(body)
           ok == {i \in 1..Len(emitted) : Unmarshal(emitted[i]).err = Nil}
           last == CHOOSE i \in ok : \A j \in ok : j <= i
       IN  IF r.err # Nil
           THEN /\ errLogs' = errLogs + 1
                /\ UNCHANGED <<pc, pending>>
           ELSE IF ok # {} /\ Unmarshal(emitted[last]).data.Slot = r.data.Slot
           THEN UNCHANGED <<pc, pending, errLogs>>
           ELSE /\ pending' = <<Item(Len(emitted) + 1, r.data)>>
                /\ pc' = "sending"
                /\ UNCHANGED errLogs
    /\ UNCHANGED <<attempts, drops, active, err, backoffs, waited, connStart,
                   buf, cap, recvLog, fvResp, fvRet,
                   closed, clientVars, regVars>>

\* OnEvent where an undecodable event tears the subscription down
OnEventReconnectOnError(body) ==
    /\ pc = "streaming"
    /\ Len(emitted) < MaxEvents
    /\ emitted' = Append(emitted, body)
    /\ LET r == Unmarshal(body)
       IN  IF r.err # Nil
           THEN /\ errLogs' = errLogs + 1
                /\ drops' = drops + 1
                /\ active' = {}
                /\ err' = r.err
                /\ pc' = "sleeping"
                /\ UNCHANGED pending
           ELSE /\ pending' = <<Item(Len(emitted) + 1, r.data)>>
                /\ pc' = "sending"
                /\ UNCHANGED <<errLogs, drops, active, err>>
    /\ UNCHANGED <<attempts, backoffs, waited, connStart, buf, cap, recvLog,
                   fvResp, fvRet,
                   closed, clientVars, regVars>>

\* OnEvent with a non-blocking send: select { case slotC <- data: default: }
OnEventDropWhenFull(body) ==
    /\ pc = "streaming"
    /\ Len(emitted) < MaxEvents
    /\ emitted' = Append(emitted, body)
    /\ LET r == Unmarshal(body)
       IN  IF r.err # Nil
           THEN /\ errLogs' = errLogs + 1
                /\ UNCHANGED buf
           ELSE /\ buf' = IF CanSend
                          THEN Append(buf, Item(Len(emitted) + 1, r.data))
                          ELSE buf
                /\ UNCHANGED errLogs
    /\ UNCHANGED <<pc, pending, attempts, drops, active, err, backoffs, waited,
                   connStart, cap, recvLog, fvResp, fvRet,
                   closed, clientVars, regVars>>

\* the callback of SubscribeRaw, called with one event
OnEvent(body) ==
    /\ pc = "streaming"
    /\ Len(emitted) < MaxEvents
    /\ emitted' = Append(emitted, body)
    /\ LET r == Unmarshal(body)
       IN  IF r.err # Nil
           THEN /\ errLogs' = errLogs + 1
                /\ UNCHANGED <<pc, pending>>
           ELSE /\ pending' = <<Item(Len(emitted) + 1, r.data)>>
                /\ pc' = "sending"
                /\ UNCHANGED errLogs
    /\ UNCHANGED <<attempts, drops, active, err, backoffs, waited, connStart, buf, cap,
                   recvLog, fvResp, fvRet,
                   closed, clientVars, regVars>>

\* slotC <- data completes into the buffer
Send ==
    /\ pc = "sending"
    /\ CanSend
    /\ buf' = buf \o pending
    /\ pending' = <<>>
    /\ pc' = "streaming"
    /\ UNCHANGED <<attempts, drops, active, err, backoffs, waited, emitted, connStart,
                   errLogs, cap, recvLog, fvResp, fvRet,
                   closed, clientVars, regVars>>

\* time.Sleep(1 * time.Second)
Sleep ==
    /\ pc = "sleeping"
    /\ backoffs' = backoffs + 1
    /\ waited' = waited + BackoffSeconds
    /\ pc' = "warn"
    /\ UNCHANGED <<attempts, drops, active, err, emitted, connStart, errLogs, pending,
                   buf, cap, recvLog, fvResp, fvRet,
                   closed, clientVars, regVars>>

\* Reconnect that returns to the caller once SubscribeRaw has failed
ReconnectGiveUp ==
    /\ pc = "warn"
    /\ pc' = IF err # Nil THEN "done" ELSE "loop"
    /\ UNCHANGED <<attempts, drops, active, err, backoffs, waited, emitted,
                   connStart, errLogs, pending, buf, cap, recvLog, fvResp, fvRet,
                   closed, clientVars, regVars>>

\* c.log.Warn("beaconclient SubscribeRaw ended, reconnecting"); next iteration
Reconnect ==
    /\ pc = "warn"
    /\ pc' = "loop"
    /\ UNCHANGED <<attempts, drops, active, err, backoffs, waited, emitted, connStart,
                   errLogs, pending, buf, cap, recvLog, fvResp, fvRet,
                   closed, clientVars, regVars>>

\* Recv on a broadcast channel: a read leaves the value for the next reader
RecvBroadcast(c) ==
    /\ \/ /\ buf # <<>>
          /\ recvLog' = Append(recvLog, [by |-> c, item |-> Head(buf)])
          /\ Len(recvLog) < MaxEvents + 1
          /\ UNCHANGED <<buf, pc, pending>>
       \/ /\ buf = <<>>
          /\ pc = "sending"
          /\ recvLog' = Append(recvLog, [by |-> c, item |-> pending[1]])
          /\ pending' = <<>>
          /\ pc' = "streaming"
          /\ UNCHANGED buf
    /\ UNCHANGED <<attempts, drops, active, err, backoffs, waited, emitted,
                   connStart, errLogs, cap, fvResp, fvRet,
                   closed, clientVars, regVars>>

\* a consumer's `<-slotC`: from the buffer, or straight from a waiting sender;
\* on a closed and drained channel the receive yields the zero value
Recv(c) ==
    /\ \/ /\ buf # <<>>
          /\ recvLog' = Append(recvLog, [by |-> c, item |-> Head(buf)])
          /\ buf' = Tail(buf)
          /\ UNCHANGED <<pc, pending>>
       \/ /\ buf = <<>>
          /\ pc = "sending"
          /\ recvLog' = Append(recvLog, [by |-> c, item |-> pending[1]])
          /\ pending' = <<>>
          /\ pc' = "streaming"
          /\ UNCHANGED buf
       \/ /\ buf = <<>>
          /\ pc # "sending"
          /\ closed
          /\ Len(recvLog) < MaxEvents
          /\ recvLog' = Append(recvLog, [by |-> c, item |-> Item(0, ZeroHeadEventData)])
          /\ UNCHANGED <<buf, pc, pending>>
    /\ UNCHANGED <<attempts, drops, active, err, backoffs, waited, emitted, connStart,
                   errLogs, cap, fvResp, fvRet,
                   closed, clientVars, regVars>>

Next ==
    \/ Subscribe
    \/ Connected
    \/ ConnectFail
    \/ \E e \in {Nil, "TransportError"} : StreamEnd(e)
    \/ \E body \in Bodies : OnEvent(body)
    \/ Send
    \/ Sleep
    \/ Reconnect
    \/ \E c \in Consumers : Recv(c)

Spec == Init /\ [][Next]_vars

NextFetch == \E resp \in Responses : FetchValidatorsCall(resp)

SpecFetch == Init /\ [][NextFetch]_vars

(***************************************************************************)
(* SpecClient: concurrent callers of the accessors.                        *)
(***************************************************************************)
CallStep == \E p \in Callers, acc \in Accessors : \E arg \in Args(acc) : Call(p, acc, arg)

RespondStep ==
    \E p \in Callers : \E f \in FetchOutcomes(calls[p].acc) : Respond(p, f)

NextClient ==
    \/ CallStep
    \/ RespondStep

\* slotC is unbuffered
InitClient == Init /\ cap = 0

SpecClient == InitClient /\ [][NextClient]_vars

(***************************************************************************)
(* SpecReg: registrations converted to entries and entries converted to    *)
(* registrations.                                                          *)
(***************************************************************************)
NextReg ==
    \/ \E valReg \in Registrations \cup {NoRegistration} : ToEntryCall(valReg)
    \/ \E entry \in DBEntries : LoadEntry(entry)
    \/ ToSignedCall

SpecReg == InitClient /\ [][NextReg]_vars

(***************************************************************************)
(* SpecShared: the head-event stream, one consumer of slotC, and           *)
(* concurrent callers of CurrentSlot and FetchValidators, interleaved.     *)
(* The stream makes SharedAttempts SubscribeRaw calls and is handed        *)
(* SharedEvents events.                                                    *)
(***************************************************************************)
SharedAttempts == 1

SharedEvents == 1

SharedBodies == {Body123}

SharedConsumers == {1}

SharedAccessors == {"CurrentSlot", "FetchValidators"}

SharedOutcomes(acc) == {f \in FetchOutcomes(acc) : f.err \in {Nil, "TransportError"}}

StreamStep ==
    \/ Subscribe /\ attempts < SharedAttempts
    \/ Connected
    \/ ConnectFail
    \/ \E e \in {Nil, "TransportError"} : StreamEnd(e)
    \/ \E body \in SharedBodies : OnEvent(body) /\ Len(emitted) < SharedEvents
    \/ Send
    \/ Sleep
    \/ Reconnect
    \/ \E c \in SharedConsumers : Recv(c)

NextShared ==
    \/ StreamStep
    \/ \E p \in Callers, acc \in SharedAccessors : \E arg \in Args(acc) : Call(p, acc, arg)
    \/ \E p \in Callers : \E f \in SharedOutcomes(calls[p].acc) : Respond(p, f)

\* slotC is buffered
InitShared == Init /\ cap = MaxCap

SpecShared == InitShared /\ [][NextShared]_vars

(***************************************************************************)
(* Vocabulary of the properties.                                           *)
(***************************************************************************)
\* what the callback's json.Unmarshal yields for each body of the model
Decoded == [b \in Bodies |-> Unmarshal(b)]

Decodable(body) == Decoded[body].err = Nil

DecodableIdx == {i \in 1..Len(emitted) : Decodable(emitted[i])}

\* the decoded values of the decodable events, in emission order
Expected ==
    LET ok == SelectSeq(emitted, Decodable)
    IN  [i \in 1..Len(ok) |-> Decoded[ok[i]].data]

DataOf(items) == [i \in 1..Len(items) |-> items[i].data]

\* the values received from slotC, in the order of the receives
Received == [i \in 1..Len(recvLog) |-> recvLog[i].item.data]

\* everything handed to slotC so far: received, buffered, or in a blocked send
Handed == [i \in 1..Len(recvLog) |-> recvLog[i].item] \o InFlight

InCall == pc \in {"connecting", "streaming", "sending"}

\* this step hands one more event to the callback
EventStep == emitted' # emitted

(***************************************************************************)
(* C1: the values received from slotC, followed by those still buffered in *)
(* slotC or held by a blocked send, are exactly the decoded values of the  *)
(* decodable events handed to the callback, in emission order: nothing is  *)
(* dropped, reordered or deduplicated; once slotC is drained the received  *)
(* sequence equals the whole of it.                                        *)
(***************************************************************************)
C1_OrderedNoLossNoDedup ==
    /\ Received \o DataOf(InFlight) = Expected
    /\ InFlight = <<>> => Received = Expected

\* the same head event emitted on two successive connections, received twice
C1_Witness ==
    /\ emitted = <<Body123, Body123>>
    /\ connStart = 1
    /\ InFlight = <<>>
    /\ Len(recvLog) = 2
    /\ recvLog[1].item.data = recvLog[2].item.data

(***************************************************************************)
(* C2: every SubscribeRaw call after the first is preceded, since the      *)
(* previous call returned, by a wait of at least the backoff interval.     *)
(***************************************************************************)
C2_BackoffBeforeEveryReconnect ==
    [][(attempts' = attempts + 1 /\ attempts >= 1) => waited >= BackoffSeconds]_vars

\* a step that hands the callback an undecodable event only logs it
C3_SkipStep ==
    (EventStep /\ ~Decodable(Last(emitted'))) =>
        /\ pc = "streaming" /\ pc' = "streaming"
        /\ errLogs' = errLogs + 1
        /\ UNCHANGED <<attempts, drops, active, err, backoffs, connStart,
                       pending, buf, recvLog>>

(***************************************************************************)
(* C3: a step that hands the callback an undecodable event logs it and     *)
(* changes nothing else: the subscription stays in Streaming, no           *)
(* connection is closed or opened, nothing is sent on slotC; and nothing   *)
(* ever handed to slotC comes from an undecodable event, while every       *)
(* decodable event, also one after an undecodable one, is handed to slotC  *)
(* in order.                                                               *)
(***************************************************************************)
C3_MalformedSkipped ==
    /\ [][C3_SkipStep]_vars
    /\ [](\A k \in 1..Len(Handed) : Handed[k].idx \in DecodableIdx)
    /\ [](\A k \in 1..Len(Handed) : \A l \in 1..Len(Handed) :
              k < l => Handed[k].idx < Handed[l].idx)
    /\ [](\A i \in DecodableIdx : \E k \in 1..Len(Handed) : Handed[k].idx = i)

\* on one connection: an undecodable event, then a valid one that is received
C3_Witness ==
    /\ attempts = 1
    /\ pc = "streaming"
    /\ emitted = <<BodyGarbage, Body123>>
    /\ errLogs = 1
    /\ Received = <<HeadEventData(123, Hex01, Hex02)>>

\* a JSON object without a slot member
MissingSlot(body) == body.top = "object" /\ body.slot.kind = "absent"

(***************************************************************************)
(* C4: nothing handed to slotC comes from a body without a slot member,    *)
(* decoding such a body is an error, and the body                          *)
(* {"slot":"123","block":"0x01","state":"0x02"} decodes to slot 123,       *)
(* block 0x01, state 0x02.                                                 *)
(***************************************************************************)
C4_MissingSlotIsDecodeError ==
    /\ \A k \in 1..Len(Handed) : ~MissingSlot(emitted[Handed[k].idx])
    /\ \A i \in 1..Len(emitted) : MissingSlot(emitted[i]) => ~Decodable(emitted[i])
    /\ Unmarshal(Body123) = [err |-> Nil, data |-> HeadEventData(123, Hex01, Hex02)]

(***************************************************************************)
(* C5: while a SubscribeRaw call is in progress after N earlier calls have *)
(* returned, N+1 calls have been made and N backoff waits have been        *)
(* completed, one between each pair of consecutive calls.                  *)
(***************************************************************************)
C5_BackoffPerDrop ==
    InCall => (attempts = drops + 1 /\ backoffs = drops)

(***************************************************************************)
(* C6: the stream is always Connecting (loop, warn, connecting), Streaming *)
(* (streaming, sending) or in backoff (sleeping), never returned; and      *)
(* after a SubscribeRaw call has returned, with or without an error, the   *)
(* step toward the next call is always possible.                           *)
(***************************************************************************)
C6_NoTerminalState ==
    /\ pc \in {"loop", "warn", "connecting", "streaming", "sending", "sleeping"}
    /\ pc = "sleeping" => ENABLED Sleep
    /\ pc = "warn" => ENABLED Reconnect
    /\ (pc = "loop" /\ attempts < MaxAttempts) => ENABLED Subscribe

\* streaming again after a failed connection, a clean close and a bad event
C6_Witness ==
    /\ pc = "streaming"
    /\ attempts = 3
    /\ backoffs >= 1
    /\ drops > backoffs
    /\ errLogs >= 1

(***************************************************************************)
(* C7: at most one SubscribeRaw call is in progress, it is the latest one, *)
(* and every earlier call has returned.                                    *)
(***************************************************************************)
C7_OneConnection ==
    /\ Cardinality(active) <= 1
    /\ active \subseteq {attempts}
    /\ InCall <=> active # {}
    /\ drops = attempts - Cardinality(active)

\* a second connection, open after the first call has returned
C7_Witness == attempts = 2 /\ active = {2} /\ drops = 1

\* a step that hands the callback a decodable event keeps that event
C8_KeepStep ==
    (EventStep /\ Decodable(Last(emitted'))) =>
        InFlight' = Append(InFlight,
                           Item(Len(emitted'), Decoded[Last(emitted')].data))

\* what a step may do while `slotC <- data` is in progress
C8_SendingStep ==
    pc = "sending" =>
        /\ UNCHANGED <<emitted, errLogs, attempts, drops, active>>
        /\ \/ pc' = "sending" /\ pending' = pending
           \/ /\ pc' = "streaming"
              /\ pending' = <<>>
              /\ \/ buf' = buf \o pending /\ recvLog' = recvLog
                 \/ /\ buf' = buf
                    /\ Len(recvLog') = Len(recvLog) + 1
                    /\ Last(recvLog').item = pending[1]

(***************************************************************************)
(* C8: a step that hands the callback a decodable event adds exactly that  *)
(* event to what slotC holds or a blocked send holds; slotC never holds    *)
(* more than its capacity; and while a send is in progress every step      *)
(* either leaves the send, the event history and the connection as they    *)
(* are, or delivers the value of that send, to the buffer or to a reader.  *)
(***************************************************************************)
C8_Backpressure ==
    /\ [][C8_KeepStep]_vars
    /\ [][C8_SendingStep]_vars
    /\ [](Len(buf) <= cap)
    /\ [](pc = "sending" <=> pending # <<>>)

\* a send blocked on a full buffered channel
C8_Witness == pc = "sending" /\ cap = 1 /\ Len(buf) = 1 /\ pending # <<>>

\* the reads, as positions of recvLog, made by consumer c
ReadsOf(c) == {k \in 1..Len(recvLog) : recvLog[k].by = c}

(***************************************************************************)
(* C9: every value handed to slotC is in exactly one place: received by    *)
(* exactly one read of one consumer, or still in slotC; no two reads, of   *)
(* the same or of different consumers, return the same send.               *)
(***************************************************************************)
C9_ExactlyOneRead ==
    /\ \A k \in 1..Len(recvLog) : \A l \in 1..Len(recvLog) :
           recvLog[k].item.idx = recvLog[l].item.idx => k = l
    /\ \A k \in 1..Len(recvLog) : \A l \in 1..Len(InFlight) :
           recvLog[k].item.idx # InFlight[l].idx
    /\ {Handed[k].idx : k \in 1..Len(Handed)} = DecodableIdx
    /\ \A k \in 1..Len(recvLog) :
           recvLog[k].item.data = Decoded[emitted[recvLog[k].item.idx]].data
    /\ Len(recvLog) = Cardinality(UNION {ReadsOf(c) : c \in Consumers})

\* two consumers, each having received one of two events
C9_Witness ==
    /\ Len(recvLog) = 2
    /\ recvLog[1].by # recvLog[2].by
    /\ recvLog[1].item.idx = 1
    /\ recvLog[2].item.idx = 2

(***************************************************************************)
(* C10: after a successful fetch FetchValidators returns a nil error and a *)
(* map whose keys are exactly the lower-cased public keys of the response  *)
(* entries, each key mapped to the last entry, in response order, with     *)
(* that lower-cased key; no key holds an upper-case letter; the entries    *)
(* 0xAA, 0xBB give a map of size 2 keyed by 0xaa and 0xbb; and 0xAA, 0xaa  *)
(* collapse to the one key 0xaa.                                           *)
(***************************************************************************)
C10_SnapshotByNormalizedKey ==
    (fvResp.called /\ fvResp.err = Nil) =>
        LET D == fvResp.Data
            m == fvRet.set.m
            keyOf(i) == ToLower(D[i].Validator.Pubkey)
            keys == {keyOf(i) : i \in 1..Len(D)}
            lastOf(k) == CHOOSE i \in 1..Len(D) :
                             keyOf(i) = k /\ \A j \in 1..Len(D) : keyOf(j) = k => j <= i
        IN  /\ fvRet.err = Nil
            /\ ~fvRet.set.nil
            /\ DOMAIN m = keys
            /\ \A k \in keys : m[k] = D[lastOf(k)]
            /\ \A k \in DOMAIN m : \A i \in 1..Len(k) :
                   \A u \in 1..Len(UpperChars) : k[i] # UpperChars[u]
            /\ D = <<EntryAA, EntryBB>> =>
                   (DOMAIN m = {Pkaa, Pkbb} /\ Cardinality(DOMAIN m) = 2)
            /\ D = <<EntryAA, Entryaa>> => (DOMAIN m = {Pkaa} /\ m[Pkaa] = Entryaa)

\* three entries, two of them differing only in case: two keys, the later wins
C10_Witness ==
    /\ fvResp.called
    /\ fvResp.err = Nil
    /\ fvResp.Data = <<EntryAA, Entryaa, EntryBB>>
    /\ DOMAIN fvRet.set.m = {Pkaa, Pkbb}
    /\ fvRet.set.m[Pkaa] = Entryaa

(***************************************************************************)
(* Accessor calls that have returned.                                      *)
(***************************************************************************)
Done(p) == calls[p].phase = "done"

Failed(p) == Done(p) /\ calls[p].out.err # Nil

(***************************************************************************)
(* C11: every accessor, FetchValidators included, returns exactly the      *)
(* error fetchBeacon returned, of whatever kind, and returns a nil error   *)
(* exactly when fetchBeacon did.                                           *)
(***************************************************************************)
C11_ErrorUnchanged ==
    \A p \in Callers : Done(p) => calls[p].ret.err = calls[p].out.err

\* a CurrentSlot call and a FetchValidators call have both failed, with
\* errors of different kinds, and each returned its own error
C11_Witness ==
    \E p, q \in Callers :
        /\ Failed(p) /\ calls[p].acc = "CurrentSlot"
        /\ calls[p].out.err = "UpstreamStatusError"
        /\ calls[p].ret.err = "UpstreamStatusError"
        /\ Failed(q) /\ calls[q].acc = "FetchValidators"
        /\ calls[q].out.err = "DecodeError"
        /\ calls[q].ret.err = "DecodeError"

(***************************************************************************)
(* C12: each invocation of an accessor or of FetchValidators issues        *)
(* exactly one upstream request, whether it succeeds or fails: a call in   *)
(* progress or returned has sent one request, and a failed request is      *)
(* never sent again inside the call.                                       *)
(***************************************************************************)
C12_OneRequestPerCall ==
    \A p \in Callers : calls[p].phase # "idle" => calls[p].nreq = 1

\* a FetchValidators call has failed and a GetHeader call has succeeded, each
\* after a single request
C12_Witness ==
    \E p, q \in Callers :
        /\ Failed(p) /\ calls[p].acc = "FetchValidators" /\ calls[p].nreq = 1
        /\ Done(q) /\ calls[q].acc = "GetHeader" /\ calls[q].out.err = Nil
        /\ calls[q].nreq = 1

(***************************************************************************)
(* C13: accessors and the head-event stream share no mutable state.  Under *)
(* any interleaving of accessor calls, FetchValidators calls and stream    *)
(* steps: no step changes the client's base URL or logger; a step of the   *)
(* stream changes no call, and a step of one call changes neither the      *)
(* stream nor another call; and what a call returns is determined by its   *)
(* own accessor, argument and upstream response alone.                     *)
(***************************************************************************)
Stepped(p) == calls'[p].phase # calls[p].phase

C13_Frame ==
    /\ beaconURI' = beaconURI
    /\ log' = log
    /\ \A p \in Callers : ~Stepped(p) => calls'[p] = calls[p]
    /\ \A p, q \in Callers : Stepped(p) /\ Stepped(q) => p = q
    /\ (\E p \in Callers : Stepped(p)) => UNCHANGED streamVars

C13_OwnResult ==
    /\ \A p \in Callers :
          calls[p].phase # "idle" =>
              calls[p].uri = URI(BaseURI, calls[p].acc, calls[p].arg)
    /\ \A p \in Callers :
          Done(p) => calls[p].ret = Return(calls[p].acc, calls[p].out)
    /\ \A p, q \in Callers :
          (/\ Done(p) /\ Done(q)
           /\ calls[p].acc = calls[q].acc
           /\ calls[p].arg = calls[q].arg
           /\ calls[p].out = calls[q].out) => calls[p].ret = calls[q].ret

C13_NoSharedMutableState == []C13_OwnResult /\ [][C13_Frame]_vars

\* while the stream has delivered an event and gone through a disconnect, two
\* concurrent CurrentSlot calls have returned the different slots of their
\* own responses
C13_Witness ==
    /\ recvLog # <<>>
    /\ drops > 0
    /\ \E p, q \in Callers :
          /\ Done(p) /\ calls[p].acc = "CurrentSlot" /\ calls[p].ret.err = Nil
          /\ Done(q) /\ calls[q].acc = "CurrentSlot" /\ calls[q].ret.err = Nil
          /\ calls[p].ret.res # calls[q].ret.res

(***************************************************************************)
(* C14: CurrentSlot is derived from the sync status.  A CurrentSlot call   *)
(* makes one fetch, of the sync-status endpoint; when it succeeds the call *)
(* returns that response's head slot and a nil error; when it fails the    *)
(* call returns slot 0 and that error, whatever slots other calls have     *)
(* returned.                                                               *)
(***************************************************************************)
C14_CurrentSlotFromSyncStatus ==
    \A p \in Callers :
        calls[p].acc = "CurrentSlot" =>
            /\ calls[p].nreq = 1
            /\ calls[p].method = "GET"
            /\ calls[p].uri = URI(BaseURI, "SyncStatus", NoArg)
            /\ Done(p) /\ calls[p].out.err = Nil =>
                  calls[p].ret = [res |-> calls[p].out.resp.Data.HeadSlot, err |-> Nil]
            /\ Failed(p) => calls[p].ret = [res |-> 0, err |-> calls[p].out.err]

\* one CurrentSlot call has returned head slot 6, and a CurrentSlot call
\* that failed afterwards or beside it has returned 0 with its error
C14_Witness ==
    \E p, q \in Callers :
        /\ Done(p) /\ calls[p].acc = "CurrentSlot"
        /\ calls[p].ret = [res |-> 6, err |-> Nil]
        /\ Failed(q) /\ calls[q].acc = "CurrentSlot"
        /\ calls[q].ret = [res |-> 0, err |-> "TransportError"]

(***************************************************************************)
(* C16: beside the error of a failed fetch, SyncStatus returns a nil       *)
(* result, CurrentSlot returns 0 and FetchValidators returns a nil map,    *)
(* while GetProposerDuties, GetHeader, GetHeaderForSlot, GetBlock,         *)
(* GetBlockForSlot, GetGenesis, GetSpec, GetForkSchedule, GetRandao and    *)
(* GetWithdrawals return a non-nil response object, on failure as on       *)
(* success.                                                                *)
(***************************************************************************)
RespAccessors ==
    {"GetProposerDuties", "GetHeader", "GetHeaderForSlot", "GetBlock", "GetBlockForSlot",
     "GetGenesis", "GetSpec", "GetForkSchedule", "GetRandao", "GetWithdrawals"}

C16_ResultBesideError ==
    \A p \in Callers :
        /\ Failed(p) /\ calls[p].acc = "SyncStatus" => calls[p].ret.res.nil
        /\ Failed(p) /\ calls[p].acc = "CurrentSlot" => calls[p].ret.res = 0
        /\ Failed(p) /\ calls[p].acc = "FetchValidators" => calls[p].ret.res.nil
        /\ Done(p) /\ calls[p].acc \in RespAccessors => ~calls[p].ret.res.nil
        /\ Failed(p) /\ calls[p].acc \in RespAccessors => calls[p].ret.err # Nil

\* a SyncStatus call has failed with a nil result beside a GetHeader call
\* that has failed with a response object
C16_Witness ==
    \E p, q \in Callers :
        /\ Failed(p) /\ calls[p].acc = "SyncStatus" /\ calls[p].ret.res.nil
        /\ Failed(q) /\ calls[q].acc = "GetHeader" /\ ~calls[q].ret.res.nil
        /\ calls[q].ret.err = "DecodeError"

(***************************************************************************)
(* C15: SubscribeToHeadEvents never closes slotC.  In every reachable      *)
(* state, after any number of disconnects and reconnects, the channel is   *)
(* open, and every value a consumer has received is the decoded value of   *)
(* an event the callback was given, never the zero value of a receive on   *)
(* a closed channel.                                                       *)
(***************************************************************************)
C15_NeverClosed ==
    /\ ~closed
    /\ \A i \in 1..Len(recvLog) :
          /\ recvLog[i].item.idx \in DecodableIdx
          /\ recvLog[i].item.data = Decoded[emitted[recvLog[i].item.idx]].data

\* two disconnects, one clean and one with an error, are behind the stream,
\* a consumer has received an event and the stream is connected again
C15_Witness ==
    /\ ~closed
    /\ drops = 2
    /\ backoffs = 1
    /\ pc = "streaming"
    /\ recvLog # <<>>

(***************************************************************************)
(* Text that is "0x" or "0X" followed by exactly 2n hex digits.            *)
(***************************************************************************)
ValidHex(s, n) ==
    /\ Len(s) = 2 + 2 * n
    /\ s[1] = "0"
    /\ s[2] \in {"x", "X"}
    /\ \A i \in 3..Len(s) : IsHexChar(s[i])

BadPubkey == ~ValidHex(regIn.entry.Pubkey, PublicKeyLength)

BadFeeRecipient == ~ValidHex(regIn.entry.FeeRecipient, AddressLength)

BadSignature == ~ValidHex(regIn.entry.Signature, SignatureLength)

=============================================================================
